---------------------------- MODULE Spec2Model ----------------------------
(***************************************************************************)
(* Model of azure-functions/email-parser-ai/function_app.py: the two HTTP  *)
(* handlers parse_email (POST /parse-email) and health (GET /health).      *)
(*                                                                         *)
(* JSON values are records [t, b, n, s, items] with one shape for every    *)
(* type, so that values of different JSON types can be compared:           *)
(*   t     the JSON type, or "absent" for a key that is not in an object   *)
(*   b     the value of a bool                                             *)
(*   n     the value of a number                                           *)
(*   s     the value of a string, as the sequence of its pieces: request   *)
(*         strings are sequences of characters, messages are               *)
(*         <<prefix, cause>>                                               *)
(*   items the elements of an array, or the keys of an object              *)
(***************************************************************************)
EXTENDS Integers, Sequences, FiniteSets, TLC

(* ------------------------------ bounds -------------------------------- *)

\* Handler invocations that may be in flight at once in SpecConc.
NumReqs == 2

\* Longest players list a model reply carries.
MaxPlayers == 2

(* ---------------------------- JSON values ----------------------------- *)

Absent == [t |-> "absent", b |-> FALSE, n |-> 0, s |-> <<>>, items |-> <<>>]
JNull == [t |-> "null", b |-> FALSE, n |-> 0, s |-> <<>>, items |-> <<>>]
JBool(v) == [t |-> "bool", b |-> v, n |-> 0, s |-> <<>>, items |-> <<>>]
JNum(v) == [t |-> "num", b |-> FALSE, n |-> v, s |-> <<>>, items |-> <<>>]
JStr(v) == [t |-> "str", b |-> FALSE, n |-> 0, s |-> v, items |-> <<>>]
JArr(v) == [t |-> "arr", b |-> FALSE, n |-> 0, s |-> <<>>, items |-> v]
JObj(v) == [t |-> "obj", b |-> FALSE, n |-> 0, s |-> <<>>, items |-> v]

\* Python truth value of a decoded JSON value (bool(x)).
Truthy(v) ==
    CASE v.t = "null" -> FALSE
      [] v.t = "bool" -> v.b
      [] v.t = "num" -> v.n # 0
      [] v.t = "str" -> v.s # <<>>
      [] OTHER -> v.items # <<>>

\* The marker of the pre-filter, "Rally Club", as characters.
Marker == <<"R", "a", "l", "l", "y", " ", "C", "l", "u", "b">>

\* Python's  m in s  for two strings: m is a contiguous part of s.
IsSubstring(m, s) ==
    \E i \in 1..(Len(s) - Len(m) + 1) : SubSeq(s, i, i + Len(m) - 1) = m

\* Whether  "Rally Club" in v  raises TypeError: v is not a container.
InRaises(v) == v.t \in {"null", "bool", "num"}

\* "Rally Club" in v  for a string (substring), an array (an element equal
\* to it) or an object (a key equal to it).
MarkerIn(v) ==
    IF v.t = "str" THEN IsSubstring(Marker, v.s)
    ELSE \E i \in 1..Len(v.items) : v.items[i] = JStr(Marker)


(* --------------------------- configuration ---------------------------- *)

\* A value of os.environ.get(name): None when the variable is not set,
\* else its text (which may be empty).
EnvNone == [set |-> FALSE, val |-> ""]
EnvStr(v) == [set |-> TRUE, val |-> v]

\* Python truth value of os.environ.get(name): neither None nor "".
EnvTruthy(v) == v.set /\ v.val # ""

EndpointVals == {EnvNone, EnvStr(""), EnvStr("https://test.openai.azure.com")}
ApiKeyVals == {EnvNone, EnvStr(""), EnvStr("test-key")}
Envs == [endpoint : EndpointVals, api_key : ApiKeyVals]

(* -------------------------- request payloads -------------------------- *)

StrTestEmail == <<"T", "e", "s", "t", " ", "e", "m", "a", "i", "l">>
StrTest == <<"T", "e", "s", "t">>
StrLowerMarker == <<"r", "a", "l", "l", "y", " ", "c", "l", "u", "b">>
StrInsideMarker == <<"R", "e", ":", " ">> \o Marker \o <<" ", "R", "S", "V", "P">>
StrBrokenMarker == <<"R", "a", "l", "l", "y", " ", " ", "C", "l", "u", "b">>

\* What the key email_text of a request object may hold (Absent: no key).
TextVals ==
    { Absent, JNull, JNum(0), JNum(5), JBool(TRUE),
      JStr(<<>>), JStr(StrTestEmail), JStr(Marker), JStr(StrInsideMarker),
      JStr(StrLowerMarker), JStr(StrBrokenMarker),
      JArr(<<>>), JArr(<<JStr(Marker)>>), JArr(<<JStr(StrTestEmail)>>),
      JObj(<<JStr(Marker)>>) }

\* What the key email_subject of a request object may hold.
SubjectVals ==
    { Absent, JNull, JNum(5), JStr(<<>>), JStr(StrTest), JStr(StrInsideMarker),
      JStr(StrLowerMarker), JArr(<<JStr(Marker)>>) }

\* A request payload: t is "undecodable" when req.get_json() raises
\* ValueError, else the JSON type of the decoded value; the two keys are
\* read only of an object.
MkPayload(t, text, subject) ==
    [t |-> t, email_text |-> text, email_subject |-> subject]

NonObjectTypes == {"null", "bool", "num", "str", "arr"}

Payloads ==
    { MkPayload(t, Absent, Absent) : t \in {"undecodable"} \cup NonObjectTypes }
    \cup { MkPayload("obj", x, y) : x \in TextVals, y \in SubjectVals }

\* The payload of a GET /health request, which has no body.
NoPayload == MkPayload("undecodable", Absent, Absent)

(* ---------------------------- model replies --------------------------- *)

\* The fields of ReservationResponse, in declaration order.
SchemaFields ==
    <<"is_reservation", "date", "start_time", "end_time", "court",
      "organizer", "players", "error">>

SchemaKeys == { SchemaFields[i] : i \in 1..Len(SchemaFields) }

\* A key the schema does not know, which a reply may carry.
ExtraKey == "notes"

ReplyKeys == SchemaKeys \cup {ExtraKey}

EmptyDoc == [k \in ReplyKeys |-> Absent]

RECURSIVE SeqsUpTo(_, _)
\* The sequences over S of length at most n.
SeqsUpTo(S, n) ==
    IF n = 0 THEN {<<>>}
    ELSE LET shorter == SeqsUpTo(S, n - 1)
         IN  shorter \cup { Append(q, x) : q \in shorter, x \in S }

PlayerNames == {JStr(<<"John Smith">>), JStr(<<"Jane Doe">>)}
PlayerLists == SeqsUpTo(PlayerNames, MaxPlayers)

\* The reply of test_successful_parse, with a players list of choice.
FullDoc(players) ==
    [EmptyDoc EXCEPT !["is_reservation"] = JBool(TRUE),
                     !["date"] = JStr(<<"2024-12-23">>),
                     !["start_time"] = JStr(<<"1:30pm">>),
                     !["end_time"] = JStr(<<"3:30pm">>),
                     !["court"] = JStr(<<"North">>),
                     !["organizer"] = JStr(<<"John Smith">>),
                     !["players"] = JArr(players)]

NotReservationDoc == [EmptyDoc EXCEPT !["is_reservation"] = JBool(FALSE)]

\* The JSON objects a model reply may decode to.
ReplyDocs ==
    { FullDoc(p) : p \in PlayerLists }
    \cup { EmptyDoc, NotReservationDoc }
    \cup { [EmptyDoc EXCEPT !["is_reservation"] = v] :
             v \in {JNull, JNum(0), JNum(1), JNum(2), JStr(<<"yes">>),
                    JStr(<<"maybe">>), JArr(<<>>)} }
    \cup { [NotReservationDoc EXCEPT ![k] = v] :
             k \in {"date", "court"},
             v \in {JNull, JNum(20241223), JBool(TRUE), JArr(<<>>)} }
    \cup { [NotReservationDoc EXCEPT !["players"] = v] :
             v \in {JNull, JStr(<<"John Smith">>), JNum(4),
                    JArr(<<JStr(<<"John Smith">>), JNum(7)>>),
                    JObj(<<JStr(<<"John Smith">>)>>)} }
    \cup { [d EXCEPT !["error"] = v] :
             d \in {NotReservationDoc, FullDoc(<<>>)},
             v \in {JNull, JNum(1), JStr(<<"Could not parse email">>)} }
    \cup { [d EXCEPT ![ExtraKey] = v] :
             d \in {NotReservationDoc, FullDoc(<<>>), EmptyDoc},
             v \in {JNum(3), JStr(<<"call me">>)} }

\* What client.chat.completions.create(...) may do:
\*   "raise"   it raises (transport or provider failure), with cause msg
\*   "none"    it returns a message whose content is None
\*   "garbage" it returns text that json.loads rejects
\*   "json"    it returns text that decodes to a value of type top, the
\*             object doc when top = "obj"
MkOutcome(kind, top, doc, msg) ==
    [kind |-> kind, top |-> top, doc |-> doc, msg |-> msg]

Outcomes ==
    { MkOutcome("raise", "null", EmptyDoc, m) : m \in {"API error", "Request timed out."} }
    \cup { MkOutcome("none", "null", EmptyDoc, ""),
           MkOutcome("garbage", "null", EmptyDoc, "") }
    \cup { MkOutcome("json", t, EmptyDoc, "") : t \in NonObjectTypes }
    \cup { MkOutcome("json", "obj", d, "") : d \in ReplyDocs }

\* No outcome yet: the model has not been called, or has not answered.
NoOutcome == MkOutcome("pending", "null", EmptyDoc, "")

(* ------------------------------ responses ----------------------------- *)

\* Every key a response body of the two handlers may carry.
BodyKeys == SchemaKeys \cup {"status", "openai_configured"}

EmptyBody == [k \in BodyKeys |-> Absent]

\* func.HttpResponse(json.dumps(body), status_code=status).
HttpResponse(status, body) == [status |-> status, body |-> body, raised |-> ""]

\* The handler returned no HttpResponse: exception exc left it.
Raised(exc) == [status |-> 0, body |-> EmptyBody, raised |-> exc]

\* The handler has not ended (as a stage's result: the stage passed).
NoResponse == [status |-> 0, body |-> EmptyBody, raised |-> ""]

\* json.dumps({"error": msg}); with a cause, msg is f"{prefix}{cause}".
ErrorBody(msg) == [EmptyBody EXCEPT !["error"] = JStr(msg)]

NotConfiguredMsg == <<"Azure OpenAI not configured">>
InvalidJsonMsg == <<"Invalid JSON in request body">>
TextRequiredMsg == <<"email_text is required">>
AiFailedPrefix == "AI processing failed: "
ParseFailedPrefix == "Failed to parse AI response: "

\* json.dumps({"is_reservation": False}).
NotReservationBody == [EmptyBody EXCEPT !["is_reservation"] = JBool(FALSE)]

\* json.dumps({"is_reservation": False, "error": f"Failed to parse ...{e}"}).
ParseFailedBody(cause) ==
    [EmptyBody EXCEPT !["is_reservation"] = JBool(FALSE),
                      !["error"] = JStr(<<ParseFailedPrefix, cause>>)]

(* ------------------- ReservationResponse (pydantic) ------------------- *)

\* Strings pydantic's bool validator takes for True and for False (the
\* validator lower-cases its input first).
BoolTrueStrs == {<<"1">>, <<"on">>, <<"t">>, <<"true">>, <<"y">>, <<"yes">>}
BoolFalseStrs == {<<"0">>, <<"off">>, <<"f">>, <<"false">>, <<"n">>, <<"no">>}

\* is_reservation: bool, required. Pydantic validates in lax mode: a bool,
\* the numbers 0 and 1 and the strings above are accepted, and coerced.
BoolAccepts(v) ==
    \/ v.t = "bool"
    \/ v.t = "num" /\ v.n \in {0, 1}
    \/ v.t = "str" /\ v.s \in (BoolTrueStrs \cup BoolFalseStrs)

BoolCoerce(v) ==
    CASE v.t = "bool" -> v
      [] v.t = "num" -> JBool(v.n = 1)
      [] OTHER -> JBool(v.s \in BoolTrueStrs)

\* Optional[str] = None: the key may be missing or null; a str is taken as
\* it is; no other type is coerced to str.
OptStrAccepts(v) == v.t \in {"absent", "null", "str"}

\* Optional[list[str]] = None: missing, null, or an array of strings.
OptStrListAccepts(v) ==
    \/ v.t \in {"absent", "null"}
    \/ v.t = "arr" /\ \A i \in 1..Len(v.items) : v.items[i].t = "str"

FieldAccepts(k, v) ==
    CASE k = "is_reservation" -> BoolAccepts(v)
      [] k = "players" -> OptStrListAccepts(v)
      [] OTHER -> OptStrAccepts(v)

\* The fields of doc that make ReservationResponse(**doc) raise
\* ValidationError (a missing is_reservation is one of them).
InvalidFields(doc) == { k \in SchemaKeys : ~FieldAccepts(k, doc[k]) }

\* The elements of q, last first.
Reversed(q) == [i \in 1..Len(q) |-> q[Len(q) + 1 - i]]

\* Construct as a validator that does not keep the order of players
\* would have it.
ConstructPlayersReversed(doc) ==
    [k \in SchemaKeys |->
        IF k = "is_reservation" THEN BoolCoerce(doc[k])
        ELSE IF doc[k].t = "absent" THEN JNull
        ELSE IF k = "players" /\ doc[k].t = "arr" THEN JArr(Reversed(doc[k].items))
        ELSE doc[k]]

\* The model ReservationResponse(**doc) builds from a valid doc: the
\* declared fields only (extra keys are ignored), a missing optional
\* field at its default None.
Construct(doc) ==
    [k \in SchemaKeys |->
        IF k = "is_reservation" THEN BoolCoerce(doc[k])
        ELSE IF doc[k].t = "absent" THEN JNull
        ELSE doc[k]]

\* reservation.model_dump_json(): every declared field, None as null.
ModelDumpJson(m) ==
    [k \in BodyKeys |-> IF k \in SchemaKeys THEN m[k] ELSE Absent]

(* --------------------- the stages of parse_email ---------------------- *)
\* Each stage yields the response that ends the handler there, or
\* NoResponse when the handler goes on to the next stage.

\* ConfigCheck as  if not endpoint:  would have it (the credential is
\* not looked at).
ConfigCheckResultEndpointOnly(e) ==
    IF ~EnvTruthy(e.endpoint)
    THEN HttpResponse(500, ErrorBody(<<"Azure OpenAI not configured">>))
    ELSE [status |-> 0, body |-> EmptyBody, raised |-> ""]

\* if not endpoint or not api_key: 500.
ConfigCheckResult(e) ==
    IF ~EnvTruthy(e.endpoint) \/ ~EnvTruthy(e.api_key)
    THEN HttpResponse(500, ErrorBody(NotConfiguredMsg))
    ELSE NoResponse

\* req.get_json() raises ValueError: 400.
BodyParseResult(p) ==
    IF p.t = "undecodable"
    THEN HttpResponse(400, ErrorBody(InvalidJsonMsg))
    ELSE NoResponse

\* req_body.get(key, ""): the key's value, "" when the key is missing.
GetOrEmpty(v) == IF v.t = "absent" THEN JStr(<<>>) ELSE v

\* FieldCheck as  if "email_text" not in req_body:  would have it (an
\* empty email_text passes).
FieldCheckResultKeyOnly(p) ==
    IF p.t # "obj" THEN Raised("AttributeError")
    ELSE IF p.email_text.t = "absent"
    THEN HttpResponse(400, ErrorBody(TextRequiredMsg))
    ELSE NoResponse

\* req_body.get(...) of a value that is no dict raises AttributeError,
\* outside every try; a falsy email_text: 400.
FieldCheckResult(p) ==
    IF p.t # "obj" THEN Raised("AttributeError")
    ELSE IF ~Truthy(GetOrEmpty(p.email_text))
    THEN HttpResponse(400, ErrorBody(TextRequiredMsg))
    ELSE NoResponse

\* if "Rally Club" not in email_text and "Rally Club" not in email_subject:
\* the second operand is evaluated only when the first is true; either
\* operand raises TypeError, outside every try, on a value that is no
\* container.
PreFilterResult(text, subject) ==
    IF InRaises(text) THEN Raised("TypeError")
    ELSE IF MarkerIn(text) THEN NoResponse
    ELSE IF InRaises(subject) THEN Raised("TypeError")
    ELSE IF MarkerIn(subject) THEN NoResponse
    ELSE HttpResponse(200, NotReservationBody)

\* except Exception as e: 500 with str(e).
AiFailed(cause) == HttpResponse(500, ErrorBody(<<AiFailedPrefix, cause>>))

\* What follows the return of client.chat.completions.create: the inner
\* try decodes and validates, its except catches JSONDecodeError and
\* ValidationError only; the outer except catches everything else, the
\* TypeError of json.loads(None) and of ReservationResponse(**x) for an x
\* that is no mapping included.
ResponseValidateResult(o) ==
    CASE o.kind = "raise" -> AiFailed(o.msg)
      [] o.kind = "none" ->
            AiFailed("the JSON object must be str, bytes or bytearray, not NoneType")
      [] o.kind = "garbage" ->
            HttpResponse(200, ParseFailedBody("Expecting value: line 1 column 1 (char 0)"))
      [] o.kind = "json" /\ o.top # "obj" ->
            AiFailed("argument after ** must be a mapping")
      [] OTHER ->
            IF InvalidFields(o.doc) # {}
            THEN HttpResponse(200, ParseFailedBody("validation error for ReservationResponse"))
            ELSE HttpResponse(200, ModelDumpJson(Construct(o.doc)))

\* health as  bool(endpoint or api_key)  would have it.
HealthResultEither(e) ==
    HttpResponse(200,
        [EmptyBody EXCEPT !["status"] = JStr(<<"ok">>),
                          !["openai_configured"] =
                              JBool(EnvTruthy(e.endpoint) \/ EnvTruthy(e.api_key))])

\* health: 200 always, openai_configured = bool(endpoint and api_key).
HealthResult(e) ==
    HttpResponse(200,
        [EmptyBody EXCEPT !["status"] = JStr(<<"ok">>),
                          !["openai_configured"] =
                              JBool(EnvTruthy(e.endpoint) /\ EnvTruthy(e.api_key))])

(* -------------------------------- state ------------------------------- *)

VARIABLES
    env,            \* os.environ: the two required settings
    pc,             \* per invocation: the stage it is at
    route,          \* per invocation: "parse-email" or "health"
    payload,        \* per invocation: the request body as sent
    email_text,     \* per invocation: local email_text
    email_subject,  \* per invocation: local email_subject
    calls,          \* per invocation: chat-completion calls made so far
    outcome,        \* per invocation: what the chat-completion call did
    resp            \* per invocation: the response, once the handler ended

vars == <<env, pc, route, payload, email_text, email_subject, calls, outcome, resp>>

\* The handler invocations (one per request in flight).
Reqs == DOMAIN pc

InitReqs(ids) ==
    /\ env \in Envs
    /\ pc = [r \in ids |-> "idle"]
    /\ route = [r \in ids |-> "none"]
    /\ payload = [r \in ids |-> NoPayload]
    /\ email_text = [r \in ids |-> Absent]
    /\ email_subject = [r \in ids |-> Absent]
    /\ calls = [r \in ids |-> 0]
    /\ outcome = [r \in ids |-> NoOutcome]
    /\ resp = [r \in ids |-> NoResponse]

\* One invocation at a time.
Init == InitReqs({1})

\* The handler of r ends with response res.
Finish(r, res) ==
    /\ pc' = [pc EXCEPT ![r] = "done"]
    /\ resp' = [resp EXCEPT ![r] = res]

\* Stage result res: end there, or go on to stage next.
Advance(r, res, next) ==
    IF res = NoResponse
    THEN pc' = [pc EXCEPT ![r] = next] /\ UNCHANGED resp
    ELSE Finish(r, res)

\* The runtime dispatches POST /parse-email with body p to parse_email.
ReceiveParse(r, p) ==
    /\ pc[r] = "idle"
    /\ pc' = [pc EXCEPT ![r] = "ConfigCheck"]
    /\ route' = [route EXCEPT ![r] = "parse-email"]
    /\ payload' = [payload EXCEPT ![r] = p]
    /\ UNCHANGED <<env, email_text, email_subject, calls, outcome, resp>>

\* The runtime dispatches GET /health to health.
ReceiveHealth(r) ==
    /\ pc[r] = "idle"
    /\ pc' = [pc EXCEPT ![r] = "Health"]
    /\ route' = [route EXCEPT ![r] = "health"]
    /\ UNCHANGED <<env, payload, email_text, email_subject, calls, outcome, resp>>

Health(r) ==
    /\ pc[r] = "Health"
    /\ Finish(r, HealthResult(env))
    /\ UNCHANGED <<env, route, payload, email_text, email_subject, calls, outcome>>

ConfigCheck(r) ==
    /\ pc[r] = "ConfigCheck"
    /\ Advance(r, ConfigCheckResult(env), "BodyParse")
    /\ UNCHANGED <<env, route, payload, email_text, email_subject, calls, outcome>>

BodyParse(r) ==
    /\ pc[r] = "BodyParse"
    /\ Advance(r, BodyParseResult(payload[r]), "FieldCheck")
    /\ UNCHANGED <<env, route, payload, email_text, email_subject, calls, outcome>>

FieldCheck(r) ==
    /\ pc[r] = "FieldCheck"
    /\ Advance(r, FieldCheckResult(payload[r]), "PreFilter")
    /\ IF payload[r].t = "obj"
       THEN /\ email_text' =
                [email_text EXCEPT ![r] = GetOrEmpty(payload[r].email_text)]
            /\ email_subject' =
                [email_subject EXCEPT ![r] = GetOrEmpty(payload[r].email_subject)]
       ELSE UNCHANGED <<email_text, email_subject>>
    /\ UNCHANGED <<env, route, payload, calls, outcome>>

\* email_text as a module-level variable would have it: the pre-filter
\* of r reads what another invocation in flight stored there, if any did.
TextOfShared(r) ==
    LET others == { q \in DOMAIN pc : q # r /\ email_text[q].t # "absent" }
    IN  IF others = {} THEN email_text[r]
        ELSE email_text[CHOOSE q \in others : TRUE]

\* The locals the pre-filter and the user message read.
TextOf(r) == email_text[r]
SubjectOf(r) == email_subject[r]

PreFilter(r) ==
    /\ pc[r] = "PreFilter"
    /\ Advance(r, PreFilterResult(TextOf(r), SubjectOf(r)), "ModelInvoke")
    /\ UNCHANGED <<env, route, payload, email_text, email_subject, calls, outcome>>

\* client.chat.completions.create(...) is issued; the handler blocks.
ModelInvoke(r) ==
    /\ pc[r] = "ModelInvoke"
    /\ calls' = [calls EXCEPT ![r] = @ + 1]
    /\ pc' = [pc EXCEPT ![r] = "Awaiting"]
    /\ UNCHANGED <<env, route, payload, email_text, email_subject, outcome, resp>>

\* The call returns or raises: o is what it did.
UpstreamAnswer(r, o) ==
    /\ pc[r] = "Awaiting"
    /\ outcome' = [outcome EXCEPT ![r] = o]
    /\ pc' = [pc EXCEPT ![r] = "ResponseValidate"]
    /\ UNCHANGED <<env, route, payload, email_text, email_subject, calls, resp>>

ResponseValidate(r) ==
    /\ pc[r] = "ResponseValidate"
    /\ Finish(r, ResponseValidateResult(outcome[r]))
    /\ UNCHANGED <<env, route, payload, email_text, email_subject, calls, outcome>>

\* The runtime sends the response; nothing of the invocation is kept.
Complete(r) ==
    /\ pc[r] = "done"
    /\ pc' = [pc EXCEPT ![r] = "idle"]
    /\ route' = [route EXCEPT ![r] = "none"]
    /\ payload' = [payload EXCEPT ![r] = NoPayload]
    /\ email_text' = [email_text EXCEPT ![r] = Absent]
    /\ email_subject' = [email_subject EXCEPT ![r] = Absent]
    /\ calls' = [calls EXCEPT ![r] = 0]
    /\ outcome' = [outcome EXCEPT ![r] = NoOutcome]
    /\ resp' = [resp EXCEPT ![r] = NoResponse]
    /\ UNCHANGED env

Next ==
    \/ \E r \in Reqs, p \in Payloads : ReceiveParse(r, p)
    \/ \E r \in Reqs : ReceiveHealth(r)
    \/ \E r \in Reqs : Health(r)
    \/ \E r \in Reqs : ConfigCheck(r)
    \/ \E r \in Reqs : BodyParse(r)
    \/ \E r \in Reqs : FieldCheck(r)
    \/ \E r \in Reqs : PreFilter(r)
    \/ \E r \in Reqs : ModelInvoke(r)
    \/ \E r \in Reqs, o \in Outcomes : UpstreamAnswer(r, o)
    \/ \E r \in Reqs : ResponseValidate(r)
    \/ \E r \in Reqs : Complete(r)

Spec == Init /\ [][Next]_vars

(* ------------------------ concurrent invocations ---------------------- *)
\* The runtime runs up to NumReqs invocations at once, their stages
\* interleaved in any order. The inputs are a selection of the ones above.

EnvsConc ==
    { [endpoint |-> EnvStr("https://test.openai.azure.com"), api_key |-> k] :
        k \in {EnvNone, EnvStr("test-key")} }

PayloadsConc ==
    { MkPayload("undecodable", Absent, Absent),
      MkPayload("arr", Absent, Absent),
      MkPayload("obj", JStr(StrTestEmail), JStr(StrTest)),
      MkPayload("obj", JStr(StrTestEmail), JStr(StrInsideMarker)),
      MkPayload("obj", JStr(Marker), Absent) }

OutcomesConc ==
    { MkOutcome("raise", "null", EmptyDoc, "API error"),
      MkOutcome("garbage", "null", EmptyDoc, ""),
      MkOutcome("json", "obj", NotReservationDoc, ""),
      MkOutcome("json", "obj",
                FullDoc(<<JStr(<<"John Smith">>), JStr(<<"Jane Doe">>)>>), "") }

InitConc == InitReqs(1..NumReqs) /\ env \in EnvsConc

NextConc ==
    \/ \E r \in Reqs, p \in PayloadsConc : ReceiveParse(r, p)
    \/ \E r \in Reqs : ReceiveHealth(r)
    \/ \E r \in Reqs : Health(r)
    \/ \E r \in Reqs : ConfigCheck(r)
    \/ \E r \in Reqs : BodyParse(r)
    \/ \E r \in Reqs : FieldCheck(r)
    \/ \E r \in Reqs : PreFilter(r)
    \/ \E r \in Reqs : ModelInvoke(r)
    \/ \E r \in Reqs, o \in OutcomesConc : UpstreamAnswer(r, o)
    \/ \E r \in Reqs : ResponseValidate(r)
    \/ \E r \in Reqs : Complete(r)

SpecConc == InitConc /\ [][NextConc]_vars

(* ------------------------- a handler run alone ------------------------ *)

\* The response of parse_email run from start to end with nothing else
\* running: settings e, body p, and o what the model call does if made.
ParseEmailAlone(e, p, o) ==
    LET c == ConfigCheckResult(e)
        b == BodyParseResult(p)
        f == FieldCheckResult(p)
        g == PreFilterResult(GetOrEmpty(p.email_text), GetOrEmpty(p.email_subject))
    IN  IF c # NoResponse THEN c
        ELSE IF b # NoResponse THEN b
        ELSE IF f # NoResponse THEN f
        ELSE IF g # NoResponse THEN g
        ELSE ResponseValidateResult(o)

\* Whether parse_email run alone on (e, p) calls the model.
CallsModelAlone(e, p) ==
    /\ ConfigCheckResult(e) = NoResponse
    /\ BodyParseResult(p) = NoResponse
    /\ FieldCheckResult(p) = NoResponse
    /\ PreFilterResult(GetOrEmpty(p.email_text), GetOrEmpty(p.email_subject)) = NoResponse

(* ------------------------------- claims ------------------------------- *)

IsParse(r) == route[r] = "parse-email"
IsDone(r) == pc[r] = "done"
Configured == ConfigCheckResult(env) = NoResponse

\* The request of r got past ConfigCheck, BodyParse and FieldCheck, with
\* an email_text that is a non-empty string.
PassedFieldCheck(r) ==
    /\ IsParse(r)
    /\ payload[r].email_text.t = "str"
    /\ pc[r] \in {"PreFilter", "ModelInvoke", "Awaiting", "ResponseValidate", "done"}
    /\ Configured
    /\ BodyParseResult(payload[r]) = NoResponse
    /\ FieldCheckResult(payload[r]) = NoResponse

\* "Rally Club" is a substring of the text that key v of the request holds.
MarkerOccurs(v) == v.t = "str" /\ IsSubstring(Marker, v.s)

MarkerInRequest(r) ==
    MarkerOccurs(payload[r].email_text) \/ MarkerOccurs(payload[r].email_subject)

\* The body is {"error": <string>} and nothing else.
OnlyError(body) ==
    /\ body["error"].t = "str"
    /\ \A k \in BodyKeys \ {"error"} : body[k].t = "absent"

\* The error field of the body is prefix followed by a cause.
ErrorStartsWith(body, prefix) ==
    /\ body["error"].t = "str"
    /\ Len(body["error"].s) = 2
    /\ body["error"].s[1] = prefix

\* The body is {"is_reservation": false, "error": "Failed to parse AI
\* response: <cause>"} and nothing else.
IsParseFailedBody(body) ==
    /\ body["is_reservation"] = JBool(FALSE)
    /\ ErrorStartsWith(body, ParseFailedPrefix)
    /\ \A k \in BodyKeys \ {"is_reservation", "error"} : body[k].t = "absent"

\* C1: for every request past ConfigCheck, BodyParse and FieldCheck the
\* model is called at most once; once the handler has ended it was called
\* exactly once if "Rally Club" occurs in email_text or email_subject, and
\* not at all otherwise, the response then being 200 {"is_reservation":
\* false}.
C1_PreFilterDecidesModelCall ==
    \A r \in Reqs :
        PassedFieldCheck(r) =>
            /\ calls[r] <= 1
            /\ IsDone(r) =>
                IF MarkerInRequest(r)
                THEN /\ calls[r] = 1
                     /\ resp[r] # HttpResponse(200, NotReservationBody)
                ELSE /\ calls[r] = 0
                     /\ resp[r] = HttpResponse(200, NotReservationBody)

\* email_subject holds text too (or is missing).
TextFields(r) == payload[r].email_subject.t \in {"str", "absent"}

\* C1 restricted to the requests whose email_subject is a string or is
\* missing: there the pre-filter decides as the claim says.
C1_HoldsForTextFields ==
    \A r \in Reqs :
        PassedFieldCheck(r) /\ TextFields(r) =>
            /\ calls[r] <= 1
            /\ IsDone(r) =>
                IF MarkerInRequest(r)
                THEN /\ calls[r] = 1
                     /\ resp[r] # HttpResponse(200, NotReservationBody)
                ELSE /\ calls[r] = 0
                     /\ resp[r] = HttpResponse(200, NotReservationBody)

\* A reply doc has the shape the Schema Validator of the specification
\* accepts: is_reservation a boolean, every other field missing, null or
\* of its declared type.
Conforms(doc) ==
    /\ doc["is_reservation"].t = "bool"
    /\ \A k \in SchemaKeys \ {"is_reservation", "players"} :
          doc[k].t \in {"absent", "null", "str"}
    /\ \/ doc["players"].t \in {"absent", "null"}
       \/ /\ doc["players"].t = "arr"
          /\ \A i \in 1..Len(doc["players"].items) : doc["players"].items[i].t = "str"

\* The model call returned text that does not decode as JSON, or decodes
\* to a value the schema rejects.
ReplyUnusable(o) ==
    \/ o.kind = "garbage"
    \/ o.kind = "json" /\ o.top # "obj"
    \/ o.kind = "json" /\ o.top = "obj" /\ ~Conforms(o.doc)

\* C2: whenever the model call returned a reply that is not decodable as
\* JSON or fails schema validation, the response is 200 with body
\* {"is_reservation": false, "error": "Failed to parse AI response: ..."}.
C2_UnusableReplyIs200 ==
    \A r \in Reqs :
        IsParse(r) /\ IsDone(r) /\ ReplyUnusable(outcome[r]) =>
            /\ resp[r].status = 200
            /\ IsParseFailedBody(resp[r].body)

\* C3: with both settings present and a model API whose every call fails,
\* every request with a non-empty email_text is answered 500 with error
\* "AI processing failed: <cause>".
C3_FailingUpstreamIs500 ==
    \A r \in Reqs :
        /\ IsParse(r) /\ IsDone(r) /\ Configured
        /\ payload[r].t = "obj"
        /\ payload[r].email_text.t = "str" /\ payload[r].email_text.s # <<>>
        /\ outcome[r].kind \in {"pending", "raise"}
        => /\ resp[r].status = 500
           /\ ErrorStartsWith(resp[r].body, AiFailedPrefix)

\* C4: when the endpoint or the credential is absent or empty, a
\* /parse-email request never gets past ConfigCheck, the model is never
\* called, and the response is 500 {"error": "Azure OpenAI not configured"}.
C4_ConfigCheckFirst ==
    \A r \in Reqs :
        IsParse(r) /\ ~(EnvTruthy(env.endpoint) /\ EnvTruthy(env.api_key)) =>
            /\ pc[r] \in {"ConfigCheck", "done"}
            /\ calls[r] = 0
            /\ IsDone(r) => resp[r] = HttpResponse(500, ErrorBody(NotConfiguredMsg))

\* C4's case: an unconfigured service has answered a request that carries
\* the marker and a well-formed body.
C4_Witness ==
    \E r \in Reqs :
        /\ IsParse(r) /\ IsDone(r)
        /\ ~EnvTruthy(env.api_key) /\ EnvTruthy(env.endpoint)
        /\ payload[r].t = "obj" /\ MarkerOccurs(payload[r].email_text)
        /\ resp[r].status = 500

\* The request body is an object whose email_text is missing or "".
TextMissingOrEmpty(r) ==
    /\ payload[r].t = "obj"
    /\ payload[r].email_text \in {Absent, JStr(<<>>)}

\* C5: with the configuration present and a body that is a JSON object, a
\* missing or empty email_text yields 400 {"error": "email_text is
\* required"} whatever email_subject holds, and the model is never called.
C5_MissingTextIs400 ==
    \A r \in Reqs :
        IsParse(r) /\ Configured /\ TextMissingOrEmpty(r) =>
            /\ pc[r] \in {"ConfigCheck", "BodyParse", "FieldCheck", "done"}
            /\ calls[r] = 0
            /\ IsDone(r) => resp[r] = HttpResponse(400, ErrorBody(TextRequiredMsg))

\* C5's case: an empty email_text beside a subject that carries the marker
\* has been answered.
C5_Witness ==
    \E r \in Reqs :
        /\ IsParse(r) /\ IsDone(r) /\ Configured
        /\ payload[r].email_text = JStr(<<>>)
        /\ MarkerOccurs(payload[r].email_subject)
        /\ resp[r].status = 400

\* C6: every /parse-email request ends in a response with status 200, 400
\* or 500 that the handler built: no exception leaves the handler.
C6_EveryRequestMapped ==
    \A r \in Reqs :
        IsParse(r) /\ IsDone(r) =>
            /\ resp[r].raised = ""
            /\ resp[r].status \in {200, 400, 500}

\* C7: when the model reply is a JSON object that conforms to the schema,
\* the response is 200 and each schema field of the body is the reply's
\* value (players in the reply's order), a field the reply lacks is null
\* or omitted, and a key the schema does not know is not in the body.
C7_ConformingReplyReproduced ==
    \A r \in Reqs :
        /\ IsParse(r) /\ IsDone(r)
        /\ outcome[r].kind = "json" /\ outcome[r].top = "obj"
        /\ Conforms(outcome[r].doc)
        => /\ resp[r].status = 200
           /\ resp[r].raised = ""
           /\ \A k \in SchemaKeys :
                IF outcome[r].doc[k].t = "absent"
                THEN resp[r].body[k].t \in {"null", "absent"}
                ELSE resp[r].body[k] = outcome[r].doc[k]
           /\ \A k \in BodyKeys \ SchemaKeys : resp[r].body[k].t = "absent"

\* C7's case: a fully populated reply with two different players has
\* been answered.
C7_Witness ==
    \E r \in Reqs :
        /\ IsParse(r) /\ IsDone(r)
        /\ outcome[r].kind = "json" /\ outcome[r].top = "obj"
        /\ Conforms(outcome[r].doc)
        /\ outcome[r].doc["date"].t = "str"
        /\ Len(outcome[r].doc["players"].items) >= 2
        /\ outcome[r].doc["players"].items[1] # outcome[r].doc["players"].items[2]
        /\ resp[r].status = 200

\* C8: /health answers 200 with status "ok" for every configuration, and
\* openai_configured is true exactly when the endpoint and the credential
\* both hold a value (an empty text is no value).
C8_HealthNeverFails ==
    \A r \in Reqs :
        route[r] = "health" /\ IsDone(r) =>
            /\ resp[r].status = 200
            /\ resp[r].raised = ""
            /\ resp[r].body["status"] = JStr(<<"ok">>)
            /\ resp[r].body["openai_configured"] =
                  JBool(/\ env.endpoint.set /\ env.endpoint.val # ""
                        /\ env.api_key.set /\ env.api_key.val # "")
            /\ \A k \in SchemaKeys : resp[r].body[k].t = "absent"

\* C8's case: /health has answered with only one of the two settings set.
C8_Witness ==
    \E r \in Reqs :
        /\ route[r] = "health" /\ IsDone(r)
        /\ EnvTruthy(env.endpoint) /\ ~env.api_key.set
        /\ resp[r].body["openai_configured"] = JBool(FALSE)

\* C9: every 400 or 500 response of /parse-email has a body whose only
\* field is a string error; a response that carries an error beside
\* another field is the model-output failure: 200, is_reservation false,
\* error "Failed to parse AI response: ...".
C9_ErrorBodiesFlat ==
    \A r \in Reqs :
        IsParse(r) /\ IsDone(r) /\ resp[r].raised = "" =>
            /\ resp[r].status \in {400, 500} => OnlyError(resp[r].body)
            /\ (/\ resp[r].body["error"].t = "str"
                /\ ~OnlyError(resp[r].body))
               => /\ resp[r].status = 200
                  /\ IsParseFailedBody(resp[r].body)
                  /\ ReplyUnusable(outcome[r])

\* C10: under any interleaving of concurrent requests, the response of
\* each is the one its handler gives when run alone on the same settings,
\* payload and model reply, and it called the model as often as alone.
C10_RequestsIndependent ==
    \A r \in Reqs :
        /\ IsDone(r) /\ route[r] = "health" => resp[r] = HealthResult(env)
        /\ IsDone(r) /\ IsParse(r) =>
            /\ resp[r] = ParseEmailAlone(env, payload[r], outcome[r])
            /\ calls[r] = IF CallsModelAlone(env, payload[r]) THEN 1 ELSE 0

\* C10's case: one request has been answered from its model reply while
\* another, with a different payload, is past its own pre-filter and has
\* its model call in flight.
C10_Witness ==
    \E r, q \in Reqs :
        /\ r # q
        /\ IsParse(r) /\ IsDone(r) /\ calls[r] = 1
        /\ IsParse(q) /\ pc[q] = "Awaiting"
        /\ payload[r] # payload[q]

\* The response of r was built by the handler of the inner except
\* (JSONDecodeError or ValidationError): the reply did not decode, or it
\* decoded to an object that ReservationResponse rejected.
FromValidationFailure(r) ==
    \/ outcome[r].kind = "garbage"
    \/ /\ outcome[r].kind = "json" /\ outcome[r].top = "obj"
       /\ InvalidFields(outcome[r].doc) # {}

\* C11: in every 200 response of /parse-email the error field is present
\* and not null only when the response comes from the validation-failure
\* path; a response built from a validated model reply carries no error.
C11_ErrorOnlyOnValidationFailure ==
    \A r \in Reqs :
        /\ IsParse(r) /\ IsDone(r)
        /\ resp[r].status = 200
        /\ resp[r].body["error"].t \notin {"absent", "null"}
        => FromValidationFailure(r)

\* C11 restricted to the replies that carry no error of their own: there
\* a populated error comes from the validation-failure path only.
C11_HoldsWithoutReplyError ==
    \A r \in Reqs :
        /\ IsParse(r) /\ IsDone(r)
        /\ resp[r].status = 200
        /\ outcome[r].doc["error"].t \in {"absent", "null"}
        /\ resp[r].body["error"].t \notin {"absent", "null"}
        => FromValidationFailure(r)

=============================================================================
